---- MODULE Spec2Model ----
(***************************************************************************)
(* Credit ledger and generation-job orchestration of the KasperCoin        *)
(* website builder: deposit scans (services/depositService.js), the        *)
(* /start-generation job pipelines and the /generate-section refresh       *)
(* (server.js), run as concurrent request handlers against one MongoDB     *)
(* user document and the in-memory progressMap.                            *)
(*                                                                         *)
(* One step of the model is what a handler executes between two awaits:    *)
(* Node runs that stretch without interleaving, and every await is a       *)
(* point where other handlers run.                                         *)
(*                                                                         *)
(* Money is fixed point: ONE units are one credit.  Raw chain amounts are  *)
(* carried in hundredths of a coin (SOMPI_PER_COIN / 100 sompi), so that   *)
(* 800 KASPER fit a TLC integer; IEEE rounding of the JS numbers is not    *)
(* modelled.                                                               *)
(***************************************************************************)
EXTENDS Integers, Sequences, FiniteSets, TLC

VARIABLES
    db,            \* the committed user documents, by wallet address
    progressMap,   \* the in-memory job table, by request id
    kasperFeed,    \* what the kasplex oplist endpoint returns for a wallet
    kaspaFeed,     \* what the kaspa full-transactions endpoint returns
    pc,            \* where each request handler stands
    kind,          \* which route a handler serves
    wallet,        \* req.body.walletAddress of the handler
    user,          \* the handler's in-memory mongoose document
    job,           \* locals of a background generation (siteCode, imagesObj, i)
    resp,          \* the HTTP response of the handler
    committed,     \* history: the ledger writes each handler has committed
    credits0       \* history: the balance the account started with

vars == <<db, progressMap, kasperFeed, kaspaFeed, pc, kind, wallet, user, job,
          resp, committed, credits0>>

---------------------------------------------------------------------------
(* Bounds of the model *)

\* Request handlers that may run (concurrently or one after the other).
MaxCalls == 2

---------------------------------------------------------------------------
(* Program constants *)

\* parseInt(tx.amt, 10) / 1e8
SOMPI_PER_COIN == 100000000
\* CREDIT_CONVERSION.KAS = 1 / 1
KAS_PER_CREDIT == 1
\* CREDIT_CONVERSION.KASPER = 1 / 800
KASPER_PER_CREDIT == 800
\* SECTIONS_ORDER.length
NUM_SECTIONS == 7

\* Raw amounts of the feeds are counted in this many sompi.
RawGrain == SOMPI_PER_COIN \div 100
\* Raw grains per coin: what dividing by 1e8 leaves of a raw amount.
GrainsPerCoin == SOMPI_PER_COIN \div RawGrain
\* Fixed-point units of one credit.
ONE == KASPER_PER_CREDIT * GrainsPerCoin
\* The price of /start-generation and of /generate-section.
JOB_COST == ONE
SECTION_COST == ONE \div 4

Calls == 1..MaxCalls
NULL == "null"
Accounts == {"w1", "w2"}
\* The addresses most requests carry: the first account and an address
\* that has no account.
Addresses == {"w1", "w0"}

CREDIT_CONVERSION(coin) ==
    IF coin = "KAS" THEN KAS_PER_CREDIT ELSE KASPER_PER_CREDIT

\* A variant that credits whole credits only.
CreditsForWhole(rawGrains, coin) ==
    ((rawGrains \div CREDIT_CONVERSION(coin)) \div GrainsPerCoin) * ONE

\* amt * CREDIT_CONVERSION[coin], for amt = raw / 1e8 held in grains.
CreditsFor(rawGrains, coin) ==
    (rawGrains * (ONE \div CREDIT_CONVERSION(coin))) \div GrainsPerCoin

\* String.prototype.toLowerCase over the operation tags of the feed.
ToLowerCase(s) ==
    IF s = "TRANSFER" THEN "transfer"
    ELSE IF s = "MINT" THEN "mint"
    ELSE s

---------------------------------------------------------------------------
(* The chain feeds *)

KTransfer1  == [hashRev |-> "tx1", amt |-> 800 * GrainsPerCoin, op |-> "transfer", to |-> "w1"]
KTransfer2  == [hashRev |-> "tx2", amt |-> 200 * GrainsPerCoin, op |-> "TRANSFER", to |-> "w1"]
KMint       == [hashRev |-> "tx3", amt |-> 800 * GrainsPerCoin, op |-> "mint", to |-> "w1"]
KElsewhere  == [hashRev |-> "tx4", amt |-> 800 * GrainsPerCoin, op |-> "transfer", to |-> "w2"]
\* An event of the oplist whose op is null.
KNoOp       == [hashRev |-> "tx10", amt |-> 800 * GrainsPerCoin, op |-> NULL, to |-> "w1"]

Out(addr, rawGrains) == [script_public_key_address |-> addr, amount |-> rawGrains]
NTx1     == [hash |-> "tx5", outputs |-> <<Out("w1", GrainsPerCoin)>>]
NTxSplit == [hash |-> "tx6", outputs |-> <<Out("w1", GrainsPerCoin \div 2), Out("w2", GrainsPerCoin),
                                           Out("w1", GrainsPerCoin \div 2)>>]
NTxAway  == [hash |-> "tx7", outputs |-> <<Out("w2", GrainsPerCoin)>>]
NTxEmpty == [hash |-> "tx8", outputs |-> <<>>]

\* The pages the two endpoints may hold for wallet w1 during one behaviour:
\* <<kasplex page, kaspa page>>.
FeedScenarios ==
    { << <<KTransfer1>>, <<NTx1>> >>,
      << <<KTransfer1, KTransfer1>>, <<NTxSplit, NTxSplit>> >>,
      << <<KMint, KElsewhere, KTransfer2>>, <<NTxEmpty, NTxAway, NTxSplit>> >> }

\* Balances an account may hold when the behaviour starts.
InitCredits == { SECTION_COST, ONE }

\* One transaction seen by both endpoints: the reveal transaction of a token
\* transfer to w1 that also pays w1 an output of native coin.
KShared == [hashRev |-> "tx9", amt |-> 800 * GrainsPerCoin, op |-> "transfer", to |-> "w1"]
NShared == [hash |-> "tx9", outputs |-> <<Out("w1", GrainsPerCoin)>>]

\* A balance of 0.2, below the price of a section.
LOW_CREDITS == ONE \div 5

---------------------------------------------------------------------------
(* Mongoose documents *)

\* User.findOne: a fresh in-memory document of the committed one.
Load(d) ==
    [credits |-> d.credits, dirty |-> FALSE,
     processedTransactions |-> d.processedTransactions,
     pushedTx |-> <<>>, pushedFiles |-> <<>>]

NoUser == [credits |-> 0, dirty |-> FALSE, processedTransactions |-> <<>>,
           pushedTx |-> <<>>, pushedFiles |-> <<>>]

\* user.credits = v: mongoose marks the path modified when the value changes.
SetCredits(u, v) ==
    [u EXCEPT !.credits = v, !.dirty = u.dirty \/ (v # u.credits)]

\* user.processedTransactions.push(rec)
PushTx(u, rec) ==
    [u EXCEPT !.processedTransactions = Append(u.processedTransactions, rec),
              !.pushedTx = Append(u.pushedTx, rec)]

\* user.generatedFiles.push(file)
PushFile(u, file) == [u EXCEPT !.pushedFiles = Append(u.pushedFiles, file)]

\* A variant whose save writes the in-memory array of records whole.
SaveOverwrite(d, u) ==
    [credits |-> IF u.dirty THEN u.credits ELSE d.credits,
     processedTransactions |-> u.processedTransactions,
     generatedFiles |-> d.generatedFiles \o u.pushedFiles]

\* A variant whose save writes the pushed elements but not the balance.
SaveRecordsOnly(d, u) ==
    [credits |-> d.credits,
     processedTransactions |-> d.processedTransactions \o u.pushedTx,
     generatedFiles |-> d.generatedFiles \o u.pushedFiles]

\* user.save(): $set of the modified scalar paths, $push of the pushed
\* array elements, applied to whatever the stored document holds by then.
Save(d, u) ==
    [credits |-> IF u.dirty THEN u.credits ELSE d.credits,
     processedTransactions |-> d.processedTransactions \o u.pushedTx,
     generatedFiles |-> d.generatedFiles \o u.pushedFiles]

\* A variant in which a failing save has written the pushed records.
SaveFailedPartial(d, u) ==
    [d EXCEPT !.processedTransactions = @ \o u.pushedTx]

\* user.save() rejecting: the one update it sends was not applied.
SaveFailed(d, u) == d

\* What the document looks like in memory after a successful save.
Saved(u) == [u EXCEPT !.dirty = FALSE, !.pushedTx = <<>>, !.pushedFiles = <<>>]

\* A variant that takes no transaction for processed.
AlreadyProcessedNever(u, id) == FALSE

\* A variant that looks only at the records loaded from the store, not at
\* those pushed during this scan.
AlreadyProcessedStored(u, id) ==
    \E i \in 1..(Len(u.processedTransactions) - Len(u.pushedTx)) :
        u.processedTransactions[i].txid = id

\* user.processedTransactions.some(t => t.txid === id)
AlreadyProcessed(u, id) ==
    \E i \in 1..Len(u.processedTransactions) : u.processedTransactions[i].txid = id

---------------------------------------------------------------------------
(* Deposit processing: the loops over one fetched page *)

\* A variant that does not look at the operation type.
KasperStepAnyOp(u, tx, addr) ==
    IF /\ tx.to = addr
       /\ ~AlreadyProcessed(u, tx.hashRev)
    THEN PushTx(SetCredits(u, u.credits + CreditsFor(tx.amt, "KASPER")),
                [txid |-> tx.hashRev, coinType |-> "KASPER", amount |-> tx.amt,
                 creditsAdded |-> CreditsFor(tx.amt, "KASPER")])
    ELSE u

\* The body of the for loop of processUserKasperDeposits for one tx.
KasperStep(u, tx, addr) ==
    IF /\ ToLowerCase(tx.op) = "transfer"
       /\ tx.to = addr
       /\ ~AlreadyProcessed(u, tx.hashRev)
    THEN PushTx(SetCredits(u, u.credits + CreditsFor(tx.amt, "KASPER")),
                [txid |-> tx.hashRev, coinType |-> "KASPER", amount |-> tx.amt,
                 creditsAdded |-> CreditsFor(tx.amt, "KASPER")])
    ELSE u

\* opType.toLowerCase() of an op that is not a string: a TypeError, caught
\* by the catch block around the request and the loop.
KasperThrows(tx) == tx.op = NULL

RECURSIVE KasperLoop(_, _, _)
KasperLoop(u, page, addr) ==
    IF page = <<>> THEN u
    ELSE IF KasperThrows(Head(page)) THEN u
    ELSE KasperLoop(KasperStep(u, Head(page), addr), Tail(page), addr)

\* sumToUser: the outputs of a transaction that pay addr.
\* A variant that takes the first output that pays the address.
RECURSIVE SumToUserFirst(_, _)
SumToUserFirst(outputs, addr) ==
    IF outputs = <<>> THEN 0
    ELSE IF Head(outputs).script_public_key_address = addr THEN Head(outputs).amount
    ELSE SumToUserFirst(Tail(outputs), addr)

RECURSIVE SumToUser(_, _)
SumToUser(outputs, addr) ==
    IF outputs = <<>> THEN 0
    ELSE (IF Head(outputs).script_public_key_address = addr
          THEN Head(outputs).amount ELSE 0) + SumToUser(Tail(outputs), addr)

\* The body of the for loop of processUserKaspaDeposits for one tx.
KaspaStep(u, tx, addr) ==
    IF Len(tx.outputs) = 0 THEN u
    ELSE IF /\ SumToUser(tx.outputs, addr) > 0
            /\ ~AlreadyProcessed(u, tx.hash)
    THEN PushTx(SetCredits(u, u.credits + CreditsFor(SumToUser(tx.outputs, addr), "KAS")),
                [txid |-> tx.hash, coinType |-> "KAS",
                 amount |-> SumToUser(tx.outputs, addr),
                 creditsAdded |-> CreditsFor(SumToUser(tx.outputs, addr), "KAS")])
    ELSE u

RECURSIVE KaspaLoop(_, _, _)
KaspaLoop(u, page, addr) ==
    IF page = <<>> THEN u
    ELSE KaspaLoop(KaspaStep(u, Head(page), addr), Tail(page), addr)

---------------------------------------------------------------------------
(* History of the ledger writes, kept for stating the properties *)

Debit(amount)  == [op |-> "debit",  amount |-> amount, txid |-> NULL]
Refund(amount) == [op |-> "refund", amount |-> amount, txid |-> NULL]
Deposit(rec)   == [op |-> "deposit", amount |-> rec.creditsAdded, txid |-> rec.txid]

\* The deposits a save of document u commits.
Deposits(u) == [i \in 1..Len(u.pushedTx) |-> Deposit(u.pushedTx[i])]

---------------------------------------------------------------------------
(* Initial state *)

NoResponse == [code |-> 0]

\* The error texts of the 400 answers of the routes.
MissingFields == "Missing required fields in userInputs."
InsufficientCredits == "Insufficient credits or invalid wallet address."
InvalidWallet == "Invalid wallet address."
InsufficientSectionCredits == "Insufficient credits. Need at least 0.25 to refresh a single section."

\* Locals of a handler besides its document.  fetched and saved are history:
\* the chains whose page arrived, and whether the handler's save succeeded.
NoJob == [siteCode |-> NULL, navLogo |-> NULL, footerImg |-> NULL,
          heroBg |-> NULL, i |-> 0, inputs |-> NULL,
          fetched |-> {}, saved |-> FALSE]

Init ==
    /\ credits0 \in InitCredits
    /\ db = [a \in Accounts |->
               [credits |-> credits0, processedTransactions |-> <<>>,
                generatedFiles |-> <<>>]]
    /\ progressMap = [c \in {} |-> NULL]
    /\ \E f \in FeedScenarios : kasperFeed = f[1] /\ kaspaFeed = f[2]
    /\ pc = [c \in Calls |-> "idle"]
    /\ kind = [c \in Calls |-> NULL]
    /\ wallet = [c \in Calls |-> NULL]
    /\ user = [c \in Calls |-> NoUser]
    /\ job = [c \in Calls |-> NoJob]
    /\ resp = [c \in Calls |-> NoResponse]
    /\ committed = [c \in Calls |-> <<>>]

\* An account that starts with 0.2 credits and whose two feeds hold the
\* shared transaction.
EdgeInit ==
    /\ credits0 = LOW_CREDITS
    /\ db = [a \in Accounts |->
               [credits |-> credits0, processedTransactions |-> <<>>,
                generatedFiles |-> <<>>]]
    /\ progressMap = [c \in {} |-> NULL]
    /\ kasperFeed = <<KShared>>
    /\ kaspaFeed = <<NShared>>
    /\ pc = [c \in Calls |-> "idle"]
    /\ kind = [c \in Calls |-> NULL]
    /\ wallet = [c \in Calls |-> NULL]
    /\ user = [c \in Calls |-> NoUser]
    /\ job = [c \in Calls |-> NoJob]
    /\ resp = [c \in Calls |-> NoResponse]
    /\ committed = [c \in Calls |-> <<>>]

\* An account of one credit whose token page holds an event without op
\* ahead of a transfer to the account.
MalformedInit ==
    /\ credits0 = ONE
    /\ db = [a \in Accounts |->
               [credits |-> credits0, processedTransactions |-> <<>>,
                generatedFiles |-> <<>>]]
    /\ progressMap = [c \in {} |-> NULL]
    /\ kasperFeed = <<KTransfer2, KNoOp, KTransfer1>>
    /\ kaspaFeed = <<NTxAway, NTx1>>
    /\ pc = [c \in Calls |-> "idle"]
    /\ kind = [c \in Calls |-> NULL]
    /\ wallet = [c \in Calls |-> NULL]
    /\ user = [c \in Calls |-> NoUser]
    /\ job = [c \in Calls |-> NoJob]
    /\ resp = [c \in Calls |-> NoResponse]
    /\ committed = [c \in Calls |-> <<>>]

\* Requests are numbered in the order in which their handlers start.
Arrives(c) ==
    /\ pc[c] = "idle"
    /\ \A d \in Calls : d < c => pc[d] # "idle"

---------------------------------------------------------------------------
(* POST /scan-deposits -> fetchAndProcessUserDeposits *)

\* A variant that scans the feeds even when findOne found no document.
ScanFindOneLenient(c, w, dbOk) ==
    /\ Arrives(c)
    /\ kind' = [kind EXCEPT ![c] = "scan"]
    /\ wallet' = [wallet EXCEPT ![c] = w]
    /\ IF dbOk
       THEN /\ user' = [user EXCEPT ![c] = IF w \in Accounts THEN Load(db[w]) ELSE NoUser]
            /\ pc' = [pc EXCEPT ![c] = "scan_kasper"]
            /\ resp' = resp
       ELSE /\ pc' = [pc EXCEPT ![c] = "done"]
            /\ resp' = [resp EXCEPT ![c] = [code |-> 500]]
            /\ user' = user
    /\ UNCHANGED <<db, progressMap, kasperFeed, kaspaFeed, job, committed, credits0>>

\* The handler starts and its User.findOne returns.
ScanFindOne(c, w, dbOk) ==
    /\ Arrives(c)
    /\ kind' = [kind EXCEPT ![c] = "scan"]
    /\ wallet' = [wallet EXCEPT ![c] = w]
    /\ IF dbOk /\ w \in Accounts
       THEN /\ user' = [user EXCEPT ![c] = Load(db[w])]
            /\ pc' = [pc EXCEPT ![c] = "scan_kasper"]
            /\ resp' = resp
       ELSE \* findOne threw, or "User not found" was thrown: the route answers 500
            /\ pc' = [pc EXCEPT ![c] = "done"]
            /\ resp' = [resp EXCEPT ![c] = [code |-> 500]]
            /\ user' = user
    /\ UNCHANGED <<db, progressMap, kasperFeed, kaspaFeed, job, committed, credits0>>

\* A variant whose per-chain function lets a failed fetch escape.
FetchFailureEscapesAlways(outcome) == outcome # "ok"

\* Whether a fetch that delivered no page makes the per-chain function
\* throw: its early return and its catch block both end it normally.
FetchFailureEscapes(outcome) == FALSE

\* The kasplex request returns; outcome is "ok", "unsuccessful" (message is
\* not "successful") or "error" (axios threw).
ScanKasper(c, outcome) ==
    /\ pc[c] = "scan_kasper"
    /\ IF FetchFailureEscapes(outcome)
       THEN /\ pc' = [pc EXCEPT ![c] = "done"]
            /\ resp' = [resp EXCEPT ![c] = [code |-> 500]]
            /\ UNCHANGED <<user, job>>
       ELSE /\ user' = [user EXCEPT ![c] =
                          IF outcome = "ok" THEN KasperLoop(@, kasperFeed, wallet[c]) ELSE @]
            /\ job' = [job EXCEPT ![c].fetched =
                          IF outcome = "ok" THEN @ \cup {"KASPER"} ELSE @]
            /\ pc' = [pc EXCEPT ![c] = "scan_kaspa"]
            /\ resp' = resp
    /\ UNCHANGED <<db, progressMap, kasperFeed, kaspaFeed, kind, wallet, committed, credits0>>

\* The kaspa request returns; outcome is "ok", "notArray" or "error".
ScanKaspa(c, outcome) ==
    /\ pc[c] = "scan_kaspa"
    /\ IF FetchFailureEscapes(outcome)
       THEN /\ pc' = [pc EXCEPT ![c] = "done"]
            /\ resp' = [resp EXCEPT ![c] = [code |-> 500]]
            /\ UNCHANGED <<user, job>>
       ELSE /\ user' = [user EXCEPT ![c] =
                          IF outcome = "ok" THEN KaspaLoop(@, kaspaFeed, wallet[c]) ELSE @]
            /\ job' = [job EXCEPT ![c].fetched =
                          IF outcome = "ok" THEN @ \cup {"KAS"} ELSE @]
            /\ pc' = [pc EXCEPT ![c] = "scan_save"]
            /\ resp' = resp
    /\ UNCHANGED <<db, progressMap, kasperFeed, kaspaFeed, kind, wallet, committed, credits0>>

\* await user.save() of fetchAndProcessUserDeposits.
ScanSave(c, dbOk) ==
    /\ pc[c] = "scan_save"
    /\ IF dbOk
       THEN /\ db' = [db EXCEPT ![wallet[c]] = Save(@, user[c])]
            /\ committed' = [committed EXCEPT ![c] = @ \o Deposits(user[c])]
            /\ job' = [job EXCEPT ![c].saved = TRUE]
            /\ pc' = [pc EXCEPT ![c] = "scan_reread"]
            /\ resp' = resp
       ELSE /\ db' = [db EXCEPT ![wallet[c]] = SaveFailed(@, user[c])]
            /\ UNCHANGED <<committed, job>>
            /\ pc' = [pc EXCEPT ![c] = "done"]
            /\ resp' = [resp EXCEPT ![c] = [code |-> 500]]
    /\ UNCHANGED <<progressMap, kasperFeed, kaspaFeed, kind, wallet, user, credits0>>

\* The route's second User.findOne and its answer { success, credits }.
ScanRespond(c, dbOk) ==
    /\ pc[c] = "scan_reread"
    /\ pc' = [pc EXCEPT ![c] = "done"]
    /\ resp' = [resp EXCEPT ![c] =
                  IF dbOk THEN [code |-> 200, credits |-> db[wallet[c]].credits]
                  ELSE [code |-> 500]]
    /\ UNCHANGED <<db, progressMap, kasperFeed, kaspaFeed, kind, wallet, user, job, committed, credits0>>

---------------------------------------------------------------------------
(* POST /start-generation and the background generation *)

SECTIONS_ORDER == <<"nav", "hero", "roadmap", "tokenomics", "exchanges", "about", "footer">>

NoImages == [navLogo |-> NULL, footerImg |-> NULL, heroBg |-> NULL]
NoSections == [i \in 1..NUM_SECTIONS |-> NULL]

\* progressMap[requestId] = { status: 'in-progress', progress: 0, ... }
NewEntry == [status |-> "in-progress", progress |-> 0, code |-> NULL,
             images |-> NoImages, sections |-> NoSections, currentIndex |-> 0]

\* A variant that hands every job the same id.
generateRequestIdFixed(c) == "1"

\* generateRequestId(): 8 random bytes as a hex string, taken to be an unused
\* id; the model derives the string from the handler that started the job.
generateRequestId(c) == ToString(c)

\* A variant whose catch block rethrows.
CatchRethrowsAlways == TRUE

\* Whether an exception thrown inside the try of the background function
\* leaves the function: its catch block logs, marks the entry and returns.
CatchRethrows == FALSE

\* A variant that resets the progress of a failed job.
MarkErrorReset(e) == [e EXCEPT !.status = "error", !.progress = 0]

\* catch (error) { status = "error"; progress = 100 } of the background function.
MarkError(e) == [e EXCEPT !.status = "error", !.progress = 100]

\* .catch(err => ...) attached where the background function is launched:
\* it runs only when the function's promise rejects, and then refunds.
LaunchCatchEntry(e, rejected) == IF rejected THEN MarkError(e) ELSE e
LaunchCatchRefund(d, w, rejected) ==
    IF rejected THEN [d EXCEPT ![w].credits = @ + JOB_COST] ELSE d
LaunchCatchLog(log, rejected) ==
    IF rejected THEN Append(log, Refund(JOB_COST)) ELSE log

\* A variant whose catch block marks every entry of the registry.
JobFailsAll(c) ==
    /\ progressMap' = [r \in DOMAIN progressMap |-> MarkError(progressMap[r])]
    /\ db' = LaunchCatchRefund(db, wallet[c], CatchRethrows)
    /\ committed' = [committed EXCEPT ![c] = LaunchCatchLog(@, CatchRethrows)]
    /\ pc' = [pc EXCEPT ![c] = "done"]

\* A failure inside the try of the background function of job c.
JobFails(c) ==
    /\ progressMap' = [progressMap EXCEPT ![generateRequestId(c)] =
                         LaunchCatchEntry(MarkError(@), CatchRethrows)]
    /\ db' = LaunchCatchRefund(db, wallet[c], CatchRethrows)
    /\ committed' = [committed EXCEPT ![c] = LaunchCatchLog(@, CatchRethrows)]
    /\ pc' = [pc EXCEPT ![c] = "done"]

\* A variant whose filter only asks for a positive balance.
HasJobCreditsPositive(d) == d.credits > 0

\* findOneAndUpdate's filter { walletAddress, credits: { $gte: 1 } }
HasJobCredits(d) == d.credits >= JOB_COST

\* A variant that lets any positive balance through.
HasSectionCreditsPositive(d) == d.credits > 0

\* if (user.credits < 0.25) return 400
HasSectionCredits(d) == ~(d.credits < SECTION_COST)

\* The route up to the return of findOneAndUpdate({credits: {$gte: 1}}, {$inc: -1}).
StartDebit(c, w, k, inputs, dbOk) ==
    /\ Arrives(c)
    /\ kind' = [kind EXCEPT ![c] = k]
    /\ wallet' = [wallet EXCEPT ![c] = w]
    /\ job' = [job EXCEPT ![c].inputs = inputs]
    /\ IF k = "sections" /\ inputs # "valid"
       THEN /\ pc' = [pc EXCEPT ![c] = "done"]
            /\ resp' = [resp EXCEPT ![c] = [code |-> 400, error |-> MissingFields]]
            /\ UNCHANGED <<db, user, committed>>
       ELSE IF ~dbOk
       THEN /\ pc' = [pc EXCEPT ![c] = "done"]
            /\ resp' = [resp EXCEPT ![c] = [code |-> 500]]
            /\ UNCHANGED <<db, user, committed>>
       ELSE IF w \in Accounts /\ HasJobCredits(db[w])
       THEN /\ db' = [db EXCEPT ![w].credits = @ - JOB_COST]
            /\ committed' = [committed EXCEPT ![c] = Append(@, Debit(JOB_COST))]
            /\ user' = [user EXCEPT ![c] = Load(db'[w])]
            /\ pc' = [pc EXCEPT ![c] = "start_launch"]
            /\ resp' = resp
       ELSE /\ pc' = [pc EXCEPT ![c] = "done"]
            /\ resp' = [resp EXCEPT ![c] = [code |-> 400, error |-> InsufficientCredits]]
            /\ UNCHANGED <<db, user, committed>>
    /\ UNCHANGED <<progressMap, kasperFeed, kaspaFeed, credits0>>

\* The route after the debit: the registry entry, the launch of the
\* background function up to its first await, and res.json({ requestId }).
StartLaunch(c) ==
    /\ pc[c] = "start_launch"
    /\ resp' = [resp EXCEPT ![c] = [code |-> 200, requestId |-> generateRequestId(c)]]
    /\ IF kind[c] = "site"
       THEN IF job[c].inputs # "valid"
            THEN \* throw new Error("Missing 'coinName' or 'colorPalette'.")
                 /\ progressMap' = (generateRequestId(c) :> LaunchCatchEntry(MarkError(NewEntry), CatchRethrows))
                                     @@ progressMap
                 /\ db' = LaunchCatchRefund(db, wallet[c], CatchRethrows)
                 /\ committed' = [committed EXCEPT ![c] = LaunchCatchLog(@, CatchRethrows)]
                 /\ pc' = [pc EXCEPT ![c] = "done"]
            ELSE /\ progressMap' = (generateRequestId(c) :> [NewEntry EXCEPT !.progress = 20])
                                     @@ progressMap
                 /\ UNCHANGED <<db, committed>>
                 /\ pc' = [pc EXCEPT ![c] = "gen_gpt"]
       ELSE \* generateAllSectionsSequential up to the first generateSectionSnippet
            /\ progressMap' = (generateRequestId(c) :>
                                 [NewEntry EXCEPT !.currentIndex = 0,
                                                  !.progress = (0 * 100) \div NUM_SECTIONS])
                                @@ progressMap
            /\ UNCHANGED <<db, committed>>
            /\ pc' = [pc EXCEPT ![c] = "sec_wait"]
    /\ UNCHANGED <<kasperFeed, kaspaFeed, kind, wallet, user, job, credits0>>

\* doWebsiteGeneration: the chat completion returns.
GenGpt(c, ok) ==
    /\ pc[c] = "gen_gpt"
    /\ IF ok
       THEN /\ job' = [job EXCEPT ![c].siteCode = "html"]
            /\ progressMap' = [progressMap EXCEPT ![generateRequestId(c)].progress = 45]
            /\ pc' = [pc EXCEPT ![c] = "gen_logo"]
            /\ UNCHANGED <<db, committed>>
       ELSE /\ JobFails(c)
            /\ job' = job
    /\ UNCHANGED <<kasperFeed, kaspaFeed, kind, wallet, user, resp, credits0>>

\* A variant whose catch block leaves the image unset.
ImageOrFallbackUnset(ok) == IF ok THEN "image" ELSE NULL

\* try { ... = the generated image } catch (err) { ... = the placeholder image }
ImageOrFallback(ok) == IF ok THEN "image" ELSE "fallback"

\* doWebsiteGeneration: the chat completion is refused with status 429; the
\* inner catch marks the entry and returns from the function.
GenGptRateLimited(c) ==
    /\ pc[c] = "gen_gpt"
    /\ progressMap' = [progressMap EXCEPT ![generateRequestId(c)] = MarkError(@)]
    /\ pc' = [pc EXCEPT ![c] = "done"]
    /\ UNCHANGED <<db, kasperFeed, kaspaFeed, kind, wallet, user, job, resp,
                   committed, credits0>>

\* doWebsiteGeneration: the logo image stage ends (image or fallback).
GenLogo(c, ok) ==
    /\ pc[c] = "gen_logo"
    /\ job' = [job EXCEPT ![c].navLogo = ImageOrFallback(ok),
                          ![c].footerImg = ImageOrFallback(ok)]
    /\ progressMap' = [progressMap EXCEPT ![generateRequestId(c)].progress = 55]
    /\ pc' = [pc EXCEPT ![c] = "gen_hero"]
    /\ UNCHANGED <<db, kasperFeed, kaspaFeed, kind, wallet, user, resp, committed, credits0>>

\* doWebsiteGeneration: the hero image stage ends; the outputs are stored,
\* the entry is marked done and the save of the artifact is issued.
GenHero(c, ok) ==
    /\ pc[c] = "gen_hero"
    /\ job' = [job EXCEPT ![c].heroBg = ImageOrFallback(ok)]
    /\ progressMap' = [progressMap EXCEPT ![generateRequestId(c)] =
                         [@ EXCEPT !.code = job[c].siteCode,
                                   !.images = [navLogo |-> job[c].navLogo,
                                               footerImg |-> job[c].footerImg,
                                               heroBg |-> job'[c].heroBg],
                                   !.status = "done",
                                   !.progress = 100]]
    /\ user' = [user EXCEPT ![c] = PushFile(@, [requestId |-> generateRequestId(c),
                                                content |-> job[c].siteCode])]
    /\ pc' = [pc EXCEPT ![c] = "gen_save"]
    /\ UNCHANGED <<db, kasperFeed, kaspaFeed, kind, wallet, resp, committed, credits0>>

\* doWebsiteGeneration: await user.save() returns or throws.
GenSave(c, dbOk) ==
    /\ pc[c] = "gen_save"
    /\ IF dbOk
       THEN /\ db' = [db EXCEPT ![wallet[c]] = Save(@, user[c])]
            /\ pc' = [pc EXCEPT ![c] = "done"]
            /\ UNCHANGED <<progressMap, committed>>
       ELSE JobFails(c)
    /\ UNCHANGED <<kasperFeed, kaspaFeed, kind, wallet, user, job, resp, credits0>>

\* A variant whose loop starts over after the last section.
SecReturnWrapping(c, ok) ==
    /\ pc[c] = "sec_wait"
    /\ IF ok
       THEN LET i == job[c].i
                next == (i + 1) % NUM_SECTIONS
            IN  /\ job' = [job EXCEPT ![c].i = next]
                /\ progressMap' = [progressMap EXCEPT ![generateRequestId(c)] =
                                     [@ EXCEPT !.sections[i + 1] = "snippet",
                                               !.currentIndex = next,
                                               !.progress = (next * 100) \div NUM_SECTIONS]]
                /\ pc' = pc
                /\ UNCHANGED <<db, committed>>
       ELSE /\ JobFails(c)
            /\ job' = job
    /\ UNCHANGED <<kasperFeed, kaspaFeed, kind, wallet, user, resp, credits0>>

\* generateAllSectionsSequential: generateSectionSnippet of section i returns.
SecReturn(c, ok) ==
    /\ pc[c] = "sec_wait"
    /\ IF ok
       THEN LET i == job[c].i
                filled == [progressMap[generateRequestId(c)] EXCEPT
                             !.sections[i + 1] = "snippet",
                             !.progress = ((i + 1) * 100) \div NUM_SECTIONS]
            IN  /\ job' = [job EXCEPT ![c].i = i + 1]
                /\ IF i + 1 < NUM_SECTIONS
                   THEN /\ progressMap' = [progressMap EXCEPT ![generateRequestId(c)] =
                                             [filled EXCEPT !.currentIndex = i + 1,
                                                            !.progress = ((i + 1) * 100) \div NUM_SECTIONS]]
                        /\ pc' = pc
                   ELSE /\ progressMap' = [progressMap EXCEPT ![generateRequestId(c)] =
                                             [filled EXCEPT !.status = "done", !.progress = 100]]
                        /\ pc' = [pc EXCEPT ![c] = "done"]
                /\ UNCHANGED <<db, committed>>
       ELSE /\ JobFails(c)
            /\ job' = job
    /\ UNCHANGED <<kasperFeed, kaspaFeed, kind, wallet, user, resp, credits0>>

---------------------------------------------------------------------------
(* POST /generate-section *)

\* The route up to the return of User.findOne, the balance check and the
\* in-memory deduction.
RefreshFindOne(c, w, dbOk) ==
    /\ Arrives(c)
    /\ kind' = [kind EXCEPT ![c] = "refresh"]
    /\ wallet' = [wallet EXCEPT ![c] = w]
    /\ IF ~dbOk
       THEN /\ pc' = [pc EXCEPT ![c] = "done"]
            /\ resp' = [resp EXCEPT ![c] = [code |-> 500]]
            /\ user' = user
       ELSE IF w \notin Accounts
       THEN /\ pc' = [pc EXCEPT ![c] = "done"]
            /\ resp' = [resp EXCEPT ![c] = [code |-> 400, error |-> InvalidWallet]]
            /\ user' = user
       ELSE IF ~HasSectionCredits(db[w])
       THEN /\ pc' = [pc EXCEPT ![c] = "done"]
            /\ resp' = [resp EXCEPT ![c] = [code |-> 400, error |-> InsufficientSectionCredits]]
            /\ user' = [user EXCEPT ![c] = Load(db[w])]
       ELSE /\ user' = [user EXCEPT ![c] =
                          SetCredits(Load(db[w]), db[w].credits - SECTION_COST)]
            /\ pc' = [pc EXCEPT ![c] = "ref_save"]
            /\ resp' = resp
    /\ UNCHANGED <<db, progressMap, kasperFeed, kaspaFeed, job, committed, credits0>>

\* A variant whose save goes to the first account of the collection.
RefreshSaveFirstAccount(c, dbOk) ==
    /\ pc[c] = "ref_save"
    /\ IF dbOk
       THEN /\ db' = [db EXCEPT !["w1"] = Save(@, user[c])]
            /\ committed' = [committed EXCEPT ![c] = Append(@, Debit(SECTION_COST))]
            /\ user' = [user EXCEPT ![c] = Saved(@)]
            /\ pc' = [pc EXCEPT ![c] = "ref_gpt"]
            /\ resp' = resp
       ELSE /\ pc' = [pc EXCEPT ![c] = "done"]
            /\ resp' = [resp EXCEPT ![c] = [code |-> 500]]
            /\ UNCHANGED <<db, user, committed>>
    /\ UNCHANGED <<progressMap, kasperFeed, kaspaFeed, kind, wallet, job, credits0>>

\* await user.save() of the route.
RefreshSave(c, dbOk) ==
    /\ pc[c] = "ref_save"
    /\ IF dbOk
       THEN /\ db' = [db EXCEPT ![wallet[c]] = Save(@, user[c])]
            /\ committed' = [committed EXCEPT ![c] = Append(@, Debit(SECTION_COST))]
            /\ user' = [user EXCEPT ![c] = Saved(@)]
            /\ pc' = [pc EXCEPT ![c] = "ref_gpt"]
            /\ resp' = resp
       ELSE /\ pc' = [pc EXCEPT ![c] = "done"]
            /\ resp' = [resp EXCEPT ![c] = [code |-> 500]]
            /\ UNCHANGED <<db, user, committed>>
    /\ UNCHANGED <<progressMap, kasperFeed, kaspaFeed, kind, wallet, job, credits0>>

\* A variant that files the refreshed section in the registry.
RefreshGptRegistering(c, ok) ==
    /\ pc[c] = "ref_gpt"
    /\ pc' = [pc EXCEPT ![c] = "done"]
    /\ resp' = [resp EXCEPT ![c] =
                  IF ok THEN [code |-> 200, newCredits |-> user[c].credits]
                  ELSE [code |-> 500]]
    /\ progressMap' = (generateRequestId(c) :> NewEntry) @@ progressMap
    /\ UNCHANGED <<db, kasperFeed, kaspaFeed, kind, wallet, user, job, committed, credits0>>

\* The chat completion (and the optional image) of the route returns.
RefreshGpt(c, ok) ==
    /\ pc[c] = "ref_gpt"
    /\ pc' = [pc EXCEPT ![c] = "done"]
    /\ resp' = [resp EXCEPT ![c] =
                  IF ok THEN [code |-> 200, newCredits |-> user[c].credits]
                  ELSE [code |-> 500]]
    /\ UNCHANGED <<db, progressMap, kasperFeed, kaspaFeed, kind, wallet, user, job, committed, credits0>>

---------------------------------------------------------------------------
FeedOutcomes == {"ok", "unsuccessful", "error"}
JobKinds == {"site", "sections"}
UserInputs == {"valid", "noCoinName"}

Next ==
    \/ \E c \in Calls, w \in Addresses, dbOk \in BOOLEAN : ScanFindOne(c, w, dbOk)
    \/ \E c \in Calls, o \in FeedOutcomes : ScanKasper(c, o)
    \/ \E c \in Calls, o \in FeedOutcomes : ScanKaspa(c, o)
    \/ \E c \in Calls, dbOk \in BOOLEAN : ScanSave(c, dbOk)
    \/ \E c \in Calls, dbOk \in BOOLEAN : ScanRespond(c, dbOk)
    \/ \E c \in Calls, w \in Addresses, k \in JobKinds, in \in UserInputs, dbOk \in BOOLEAN :
          StartDebit(c, w, k, in, dbOk)
    \/ \E c \in Calls : StartLaunch(c)
    \/ \E c \in Calls, ok \in BOOLEAN : GenGpt(c, ok)
    \/ \E c \in Calls : GenGptRateLimited(c)
    \/ \E c \in Calls, ok \in BOOLEAN : GenLogo(c, ok)
    \/ \E c \in Calls, ok \in BOOLEAN : GenHero(c, ok)
    \/ \E c \in Calls, dbOk \in BOOLEAN : GenSave(c, dbOk)
    \/ \E c \in Calls, ok \in BOOLEAN : SecReturn(c, ok)
    \/ \E c \in Calls, w \in Addresses, dbOk \in BOOLEAN : RefreshFindOne(c, w, dbOk)
    \/ \E c \in Calls, dbOk \in BOOLEAN : RefreshSave(c, dbOk)
    \/ \E c \in Calls, ok \in BOOLEAN : RefreshGpt(c, ok)

Spec == Init /\ [][Next]_vars

\* The deposit scans alone: only POST /scan-deposits requests arrive.
ScanNext ==
    \/ \E c \in Calls, w \in Addresses, dbOk \in BOOLEAN : ScanFindOne(c, w, dbOk)
    \/ \E c \in Calls, o \in FeedOutcomes : ScanKasper(c, o)
    \/ \E c \in Calls, o \in FeedOutcomes : ScanKaspa(c, o)
    \/ \E c \in Calls, dbOk \in BOOLEAN : ScanSave(c, dbOk)
    \/ \E c \in Calls, dbOk \in BOOLEAN : ScanRespond(c, dbOk)

SpecScan == Init /\ [][ScanNext]_vars

\* The scans of the page that holds the event without op.
SpecMalformed == MalformedInit /\ [][ScanNext]_vars

\* The same program started on the low balance and the shared transaction.
SpecEdge == EdgeInit /\ [][Next]_vars

\* The continuations of handler c: the steps that run when a promise the
\* handler awaits settles.
Returns(c) ==
    \/ \E o \in FeedOutcomes : ScanKasper(c, o)
    \/ \E o \in FeedOutcomes : ScanKaspa(c, o)
    \/ \E dbOk \in BOOLEAN : ScanSave(c, dbOk)
    \/ \E dbOk \in BOOLEAN : ScanRespond(c, dbOk)
    \/ StartLaunch(c)
    \/ \E ok \in BOOLEAN : GenGpt(c, ok)
    \/ GenGptRateLimited(c)
    \/ \E ok \in BOOLEAN : GenLogo(c, ok)
    \/ \E ok \in BOOLEAN : GenHero(c, ok)
    \/ \E dbOk \in BOOLEAN : GenSave(c, dbOk)
    \/ \E ok \in BOOLEAN : SecReturn(c, ok)
    \/ \E dbOk \in BOOLEAN : RefreshSave(c, dbOk)
    \/ \E ok \in BOOLEAN : RefreshGpt(c, ok)

\* Every awaited promise settles and the event loop then runs the
\* continuation: no handler waits forever.
LiveSpec == Spec /\ \A c \in Calls : WF_vars(Returns(c))
---------------------------------------------------------------------------
(* Quantities the properties are stated in *)

TheAccount == "w1"
Credits == db[TheAccount].credits
Records == db[TheAccount].processedTransactions
JobCalls == {c \in Calls : kind[c] \in JobKinds}
Started == {c \in Calls : pc[c] # "idle"}

\* The number of records of a processed-transactions array that carry id t.
RECURSIVE CountTx(_, _)
CountTx(recs, t) ==
    IF recs = <<>> THEN 0
    ELSE (IF Head(recs).txid = t THEN 1 ELSE 0) + CountTx(Tail(recs), t)

\* The credited amounts of an array of records, every id counted once.
RECURSIVE DistinctCredits(_, _)
DistinctCredits(recs, seen) ==
    IF recs = <<>> THEN 0
    ELSE IF Head(recs).txid \in seen THEN DistinctCredits(Tail(recs), seen)
    ELSE Head(recs).creditsAdded
           + DistinctCredits(Tail(recs), seen \cup {Head(recs).txid})

\* The amounts of the writes of kind op in one handler's history.
RECURSIVE LogSum(_, _)
LogSum(log, op) ==
    IF log = <<>> THEN 0
    ELSE (IF Head(log).op = op THEN Head(log).amount ELSE 0) + LogSum(Tail(log), op)

\* ... and over the handlers 1..n.
RECURSIVE Total(_, _)
Total(op, n) ==
    IF n = 0 THEN 0 ELSE LogSum(committed[n], op) + Total(op, n - 1)

Debited == Total("debit", MaxCalls)
Refunded == Total("refund", MaxCalls)

\* The handlers whose committed writes include a deposit of transaction t.
Appliers(t) ==
    {c \in Calls : \E i \in 1..Len(committed[c]) :
        committed[c][i].op = "deposit" /\ committed[c][i].txid = t}

\* The transaction ids the two feeds carry.
FeedTxIds ==
    {kasperFeed[i].hashRev : i \in 1..Len(kasperFeed)}
      \cup {kaspaFeed[i].hash : i \in 1..Len(kaspaFeed)}

\* The ids of the events of a page that qualify for crediting to addr.
QualifyingKasper(addr) ==
    {kasperFeed[i].hashRev : i \in
       {j \in 1..Len(kasperFeed) :
          kasperFeed[j].op \in {"transfer", "TRANSFER"} /\ kasperFeed[j].to = addr}}
QualifyingKaspa(addr) ==
    {kaspaFeed[i].hash : i \in
       {j \in 1..Len(kaspaFeed) :
          \E o \in 1..Len(kaspaFeed[j].outputs) :
             /\ kaspaFeed[j].outputs[o].script_public_key_address = addr
             /\ kaspaFeed[j].outputs[o].amount > 0}}

\* Names every JavaScript object inherits from Object.prototype.
ObjectPrototypeKeys == {"constructor", "toString", "__proto__"}
UNDEFINED == "undefined"

\* The error texts of GET /result and GET /export.
InvalidRequestId == "Invalid or missing requestId"
NotFinished == "Not finished or generation error."
ExportNotCompleted == "Generation not completed or encountered an error."
InvalidExportType == "Invalid or missing export type. Use 'full' or 'wordpress'."

\* !requestId || !progressMap[requestId], progressMap being the plain object
\* {}: a name inherited from Object.prototype reads as a (truthy) member.
NoEntry(requestId) ==
    \/ requestId = ""
    \/ requestId \notin DOMAIN progressMap /\ requestId \notin ObjectPrototypeKeys

\* const { status, code, images } = progressMap[requestId]
Destructured(requestId) ==
    IF requestId \in DOMAIN progressMap
    THEN [status |-> progressMap[requestId].status,
          code |-> progressMap[requestId].code,
          images |-> progressMap[requestId].images]
    ELSE [status |-> UNDEFINED, code |-> UNDEFINED, images |-> UNDEFINED]

\* GET /progress: { status, progress } of the entry, or the 400 answer.
getProgress(requestId) ==
    IF NoEntry(requestId) THEN [code |-> 400, error |-> InvalidRequestId]
    ELSE IF requestId \in DOMAIN progressMap
    THEN [status |-> progressMap[requestId].status,
          progress |-> progressMap[requestId].progress]
    ELSE [status |-> UNDEFINED, progress |-> UNDEFINED]

\* GET /result: the code with the images put in place of the placeholders.
getResult(requestId) ==
    IF NoEntry(requestId) THEN [code |-> 400, error |-> InvalidRequestId]
    ELSE IF Destructured(requestId).status # "done"
    THEN [code |-> 400, error |-> NotFinished]
    ELSE [code |-> 200, html |-> Destructured(requestId).code,
          images |-> Destructured(requestId).images]

\* GET /export: the same page as a download of the asked type.
getExport(requestId, type) ==
    IF NoEntry(requestId) THEN [code |-> 400, error |-> InvalidRequestId]
    ELSE IF Destructured(requestId).status # "done"
    THEN [code |-> 400, error |-> ExportNotCompleted]
    ELSE IF type \notin {"full", "wordpress"}
    THEN [code |-> 400, error |-> InvalidExportType]
    ELSE [code |-> 200, type |-> type, html |-> Destructured(requestId).code,
          images |-> Destructured(requestId).images]

---------------------------------------------------------------------------
(* The generation side on its own, the read routes, and a restart *)

PollRoutes == {"progress", "result", "export"}
\* The ids a client polls: the issued ones and one that was never issued.
PollIds == {generateRequestId(c) : c \in Calls} \cup {"f00dfeedf00dfeed"}

\* GET /progress, GET /result or GET /export: answered in one stretch
\* (job[c].inputs keeps req.query.requestId).
Poll(c, route, requestId) ==
    /\ Arrives(c)
    /\ kind' = [kind EXCEPT ![c] = "poll"]
    /\ job' = [job EXCEPT ![c].inputs = requestId]
    /\ pc' = [pc EXCEPT ![c] = "done"]
    /\ resp' = [resp EXCEPT ![c] =
                  LET answer == IF route = "progress" THEN getProgress(requestId)
                                ELSE IF route = "result" THEN getResult(requestId)
                                ELSE getExport(requestId, "full")
                  IN  IF "code" \in DOMAIN answer THEN answer
                      ELSE [code |-> 200, body |-> answer]]
    /\ UNCHANGED <<db, progressMap, kasperFeed, kaspaFeed, wallet, user,
                   committed, credits0>>

\* A variant of the restart that finds the old registry again.
RestartKeepingRegistry ==
    /\ \E c \in Calls : pc[c] \notin {"idle", "lost", "over"}
    /\ progressMap' = progressMap
    /\ pc' = [c \in Calls |->
                IF pc[c] = "idle" THEN "idle"
                ELSE IF pc[c] \in {"done", "over"} THEN "over" ELSE "lost"]
    /\ user' = [c \in Calls |-> NoUser]
    /\ UNCHANGED <<db, kasperFeed, kaspaFeed, kind, wallet, job, resp, committed,
                   credits0>>

\* The process exits and starts again: const progressMap = {} is evaluated
\* anew, the handlers and background functions in flight are gone ("lost")
\* and those that had ended belong to the old process ("over"); the
\* database keeps what was committed.
Restart ==
    /\ \E c \in Calls : pc[c] \notin {"idle", "lost", "over"}
    /\ progressMap' = [c \in {} |-> NULL]
    /\ pc' = [c \in Calls |->
                IF pc[c] = "idle" THEN "idle"
                ELSE IF pc[c] \in {"done", "over"} THEN "over" ELSE "lost"]
    /\ user' = [c \in Calls |-> NoUser]
    /\ UNCHANGED <<db, kasperFeed, kaspaFeed, kind, wallet, job, resp, committed,
                   credits0>>

\* An account that holds two credits, enough for two jobs.
GEN_CREDITS == 2 * ONE

GenInit ==
    /\ credits0 = GEN_CREDITS
    /\ db = [a \in Accounts |->
               [credits |-> credits0, processedTransactions |-> <<>>,
                generatedFiles |-> <<>>]]
    /\ progressMap = [c \in {} |-> NULL]
    /\ kasperFeed = <<KTransfer1>>
    /\ kaspaFeed = <<NTx1>>
    /\ pc = [c \in Calls |-> "idle"]
    /\ kind = [c \in Calls |-> NULL]
    /\ wallet = [c \in Calls |-> NULL]
    /\ user = [c \in Calls |-> NoUser]
    /\ job = [c \in Calls |-> NoJob]
    /\ resp = [c \in Calls |-> NoResponse]
    /\ committed = [c \in Calls |-> <<>>]

\* Jobs, refreshes and polls, with no deposit scan.
GenNext ==
    \/ \E c \in Calls, w \in Addresses, k \in JobKinds, in \in UserInputs, dbOk \in BOOLEAN :
          StartDebit(c, w, k, in, dbOk)
    \/ \E c \in Calls : StartLaunch(c)
    \/ \E c \in Calls, ok \in BOOLEAN : GenGpt(c, ok)
    \/ \E c \in Calls : GenGptRateLimited(c)
    \/ \E c \in Calls, ok \in BOOLEAN : GenLogo(c, ok)
    \/ \E c \in Calls, ok \in BOOLEAN : GenHero(c, ok)
    \/ \E c \in Calls, dbOk \in BOOLEAN : GenSave(c, dbOk)
    \/ \E c \in Calls, ok \in BOOLEAN : SecReturn(c, ok)
    \/ \E c \in Calls, w \in Addresses, dbOk \in BOOLEAN : RefreshFindOne(c, w, dbOk)
    \/ \E c \in Calls, dbOk \in BOOLEAN : RefreshSave(c, dbOk)
    \/ \E c \in Calls, ok \in BOOLEAN : RefreshGpt(c, ok)
    \/ \E c \in Calls, route \in PollRoutes, r \in PollIds : Poll(c, route, r)

SpecGen == GenInit /\ [][GenNext]_vars

\* The jobs alone: /start-generation and its two background functions.
JobsNext ==
    \/ \E c \in Calls, w \in Addresses, k \in JobKinds, in \in UserInputs, dbOk \in BOOLEAN :
          StartDebit(c, w, k, in, dbOk)
    \/ \E c \in Calls : StartLaunch(c)
    \/ \E c \in Calls, ok \in BOOLEAN : GenGpt(c, ok)
    \/ \E c \in Calls : GenGptRateLimited(c)
    \/ \E c \in Calls, ok \in BOOLEAN : GenLogo(c, ok)
    \/ \E c \in Calls, ok \in BOOLEAN : GenHero(c, ok)
    \/ \E c \in Calls, dbOk \in BOOLEAN : GenSave(c, dbOk)
    \/ \E c \in Calls, ok \in BOOLEAN : SecReturn(c, ok)

SpecJobs == GenInit /\ [][JobsNext]_vars

\* ... with every awaited call of a handler returning sooner or later.
LiveJobs == SpecJobs /\ \A c \in Calls : WF_vars(Returns(c))

\* ... and the process may restart at any moment.
RestartNext == GenNext \/ Restart

SpecRestart == GenInit /\ [][RestartNext]_vars

\* Every handler, on the account of two credits and the one-page feeds.
SpecMixed == GenInit /\ [][Next]_vars

\* Two accounts of two credits each; the pages hold payments to both.
TwoInit ==
    /\ credits0 = GEN_CREDITS
    /\ db = [a \in Accounts |->
               [credits |-> credits0, processedTransactions |-> <<>>,
                generatedFiles |-> <<>>]]
    /\ progressMap = [c \in {} |-> NULL]
    /\ kasperFeed = <<KTransfer1, KElsewhere>>
    /\ kaspaFeed = <<NTxSplit>>
    /\ pc = [c \in Calls |-> "idle"]
    /\ kind = [c \in Calls |-> NULL]
    /\ wallet = [c \in Calls |-> NULL]
    /\ user = [c \in Calls |-> NoUser]
    /\ job = [c \in Calls |-> NoJob]
    /\ resp = [c \in Calls |-> NoResponse]
    /\ committed = [c \in Calls |-> <<>>]

\* Scans, whole-site jobs whose images arrive, and refreshes, with requests
\* for either account.
TwoNext ==
    \/ \E c \in Calls, w \in Accounts, dbOk \in BOOLEAN : ScanFindOne(c, w, dbOk)
    \/ \E c \in Calls, o \in FeedOutcomes : ScanKasper(c, o)
    \/ \E c \in Calls, o \in FeedOutcomes : ScanKaspa(c, o)
    \/ \E c \in Calls, dbOk \in BOOLEAN : ScanSave(c, dbOk)
    \/ \E c \in Calls, dbOk \in BOOLEAN : ScanRespond(c, dbOk)
    \/ \E c \in Calls, w \in Accounts, dbOk \in BOOLEAN :
          StartDebit(c, w, "site", "valid", dbOk)
    \/ \E c \in Calls : StartLaunch(c)
    \/ \E c \in Calls, ok \in BOOLEAN : GenGpt(c, ok)
    \/ \E c \in Calls : GenLogo(c, TRUE)
    \/ \E c \in Calls : GenHero(c, TRUE)
    \/ \E c \in Calls, dbOk \in BOOLEAN : GenSave(c, dbOk)
    \/ \E c \in Calls, w \in Accounts, dbOk \in BOOLEAN : RefreshFindOne(c, w, dbOk)
    \/ \E c \in Calls, dbOk \in BOOLEAN : RefreshSave(c, dbOk)
    \/ \E c \in Calls, ok \in BOOLEAN : RefreshGpt(c, ok)

SpecTwo == TwoInit /\ [][TwoNext]_vars

\* The credited amounts of an array of records.
RECURSIVE SumCredits(_)
SumCredits(recs) ==
    IF recs = <<>> THEN 0 ELSE Head(recs).creditsAdded + SumCredits(Tail(recs))

\* The number of records of an array that carry id t and coin type coin.
RECURSIVE CountTxCoin(_, _, _)
CountTxCoin(recs, t, coin) ==
    IF recs = <<>> THEN 0
    ELSE (IF Head(recs).txid = t /\ Head(recs).coinType = coin THEN 1 ELSE 0)
           + CountTxCoin(Tail(recs), t, coin)

\* The ids of an array of records.
TxIds(recs) == {recs[i].txid : i \in 1..Len(recs)}

\* The records handler c found in the store when it loaded the document.
LoadedTxIds(c) ==
    {user[c].processedTransactions[i].txid :
        i \in 1..(Len(user[c].processedTransactions) - Len(user[c].pushedTx))}

\* A step taken by handler c (every action moves exactly one handler).
StepOf(c) == <<pc[c], job[c], user[c], resp[c]>>' # <<pc[c], job[c], user[c], resp[c]>>

---------------------------------------------------------------------------
(* C1 *)

\* C1: for any interleaving of concurrent scans of one account whose feeds
\* carry the same qualifying transaction id, at most one of the callers
\* applies the credit, and once the scans are over the balance has grown by
\* that transaction's credited amount exactly once.
IdempotentCredit ==
    (\A c \in Started : kind[c] = "scan") =>
        /\ \A t \in FeedTxIds : Cardinality(Appliers(t)) <= 1
        /\ (\A c \in Started : pc[c] = "done") =>
              Credits = credits0 + DistinctCredits(Records, {})

---------------------------------------------------------------------------
(* C2 *)

\* The primary content stage of job c failed: the entry is in error and no
\* code was produced from valid inputs.
PrimaryFailed(c) ==
    /\ c \in JobCalls
    /\ pc[c] = "done"
    /\ generateRequestId(c) \in DOMAIN progressMap
    /\ progressMap[generateRequestId(c)].status = "error"
    /\ progressMap[generateRequestId(c)].code = NULL
    /\ job[c].inputs = "valid"

\* C2: a job that ends in ERROR because its primary content stage failed
\* has had exactly one credit of 1 refunded, and with no other operation on
\* the account the balance is back at its pre-job value.
RefundOnPrimaryFailure ==
    \A c \in Calls : PrimaryFailed(c) =>
        /\ LogSum(committed[c], "refund") = JOB_COST
        /\ (Started = {c}) => Credits = credits0

---------------------------------------------------------------------------
(* C3 *)

\* C3: the step in which startJob's debit succeeds lowers the balance by
\* exactly 1, it precedes the answer carrying the request id, and no step a
\* job takes once its entry is DONE, nor the step that makes it DONE,
\* changes the balance.
DebitOnceThenUntouched ==
    [][\A c \in Calls : (kind'[c] \in JobKinds /\ StepOf(c)) =>
          /\ (pc[c] = "idle" /\ pc'[c] = "start_launch") =>
                Credits' = Credits - JOB_COST
          /\ (resp'[c].code = 200 /\ resp[c].code # 200) =>
                LogSum(committed[c], "debit") = JOB_COST
          /\ (/\ generateRequestId(c) \in DOMAIN progressMap'
              /\ progressMap'[generateRequestId(c)].code # NULL
                   \/ progressMap'[generateRequestId(c)].status = "done") =>
                Credits' = Credits]_vars

\* A job that went through to DONE alone on the account: one credit is gone.
DebitOnceThenUntouchedWitness ==
    \E c \in JobCalls :
        /\ Started = {c}
        /\ pc[c] = "done"
        /\ generateRequestId(c) \in DOMAIN progressMap
        /\ progressMap[generateRequestId(c)].status = "done"
        /\ Credits = credits0 - JOB_COST

---------------------------------------------------------------------------
(* C4 *)

\* C4: the committed balance is never negative, and when only startJob
\* calls run on an account provisioned with b credits, the debits that
\* succeed never exceed b.
NoOverdraft ==
    /\ Credits >= 0
    /\ (Started \subseteq JobCalls) => Debited <= credits0

\* Two startJob calls race for the one credit of the account: one holds the
\* debit, the other was turned away.
NoOverdraftWitness ==
    /\ MaxCalls >= 2
    /\ credits0 = JOB_COST
    /\ {1, 2} \subseteq JobCalls
    /\ wallet[1] = TheAccount /\ wallet[2] = TheAccount
    /\ job[2].inputs = "valid"
    /\ pc[1] = "start_launch"
    /\ resp[2].code = 400
    /\ Credits = 0

---------------------------------------------------------------------------
(* C5 *)

\* C5: under any interleaving of scans with startJob debits and refunds,
\* the committed balance is the initial balance plus the credited amounts of
\* the recorded deposits, minus the debits, plus the refunds.
Conservation ==
    (\A c \in Started : kind[c] \in JobKinds \cup {"scan"}) =>
        Credits = credits0 + DistinctCredits(Records, {}) - Debited + Refunded

---------------------------------------------------------------------------
(* C6 *)

\* C6: under any interleaving of refreshSection and startJob calls, the
\* committed balance has dropped by 0.25 for every refresh that passed the
\* balance check and saved, plus 1 for every successful startJob.
AtomicSectionDebit ==
    (\A c \in Started : kind[c] \in JobKinds \cup {"refresh"}) =>
        credits0 - Credits = Debited - Refunded

---------------------------------------------------------------------------
(* C7 *)

\* C7: the progress getProgress reports for a job never decreases from one
\* poll to a later one, whatever the outcome of the pipeline.
MonotonicProgress ==
    [][\A r \in DOMAIN progressMap :
          getProgress(r)'.progress >= getProgress(r).progress]_vars

\* A job that failed after it had produced output: its progress went up to
\* 100 through the error path.
MonotonicProgressWitness ==
    \E r \in DOMAIN progressMap :
        /\ getProgress(r) = [status |-> "error", progress |-> 100]
        /\ progressMap[r].code # NULL \/ progressMap[r].sections[1] # NULL

---------------------------------------------------------------------------
(* C8 *)

\* C8: once an entry is DONE or ERROR, its state and its stage outputs
\* (code, images, sections) never change again.
TerminalIsFinal ==
    [][\A r \in DOMAIN progressMap :
          progressMap[r].status \in {"done", "error"} =>
             /\ progressMap'[r].status = progressMap[r].status
             /\ progressMap'[r].code = progressMap[r].code
             /\ progressMap'[r].images = progressMap[r].images
             /\ progressMap'[r].sections = progressMap[r].sections]_vars

---------------------------------------------------------------------------
(* C9 *)

\* C9: the processed-deposit array of an account never holds two records
\* with the same external transaction id.
UniqueProcessedDeposit ==
    \A t \in FeedTxIds : CountTx(Records, t) <= 1

---------------------------------------------------------------------------
(* C10 *)

\* A scan by handler c was the only operation on the account and has saved.
SoleScanSaved(c) ==
    /\ Started = {c}
    /\ kind[c] = "scan"
    /\ job[c].saved

\* C10: after a single scan whose pages arrived, every qualifying
\* transaction id of a page, delivered once or twice, has exactly one
\* record, and the balance has grown by one credited amount per id.
DuplicateDeliveryOnce ==
    \A c \in Calls : SoleScanSaved(c) =>
        /\ \A t \in QualifyingKasper(wallet[c]) :
              "KASPER" \in job[c].fetched => CountTx(Records, t) = 1
        /\ \A t \in QualifyingKaspa(wallet[c]) :
              "KAS" \in job[c].fetched => CountTx(Records, t) = 1
        /\ \A t \in FeedTxIds : CountTx(Records, t) <= 1
        /\ Credits = credits0 + DistinctCredits(Records, {})
        /\ Credits = credits0 + LogSum(committed[c], "deposit")

\* Both pages delivered a transaction twice; each has one record and the
\* balance holds one credit for each.
DuplicateDeliveryOnceWitness ==
    /\ kasperFeed = <<KTransfer1, KTransfer1>>
    /\ kaspaFeed = <<NTxSplit, NTxSplit>>
    /\ SoleScanSaved(1)
    /\ job[1].fetched = {"KASPER", "KAS"}
    /\ CountTx(Records, "tx1") = 1
    /\ CountTx(Records, "tx6") = 1
    /\ Credits = credits0 + 2 * ONE

---------------------------------------------------------------------------
(* C11 *)

\* Job c is in ERROR and its debit had been committed.
ErrorAfterDebit(c) ==
    /\ c \in JobCalls
    /\ generateRequestId(c) \in DOMAIN progressMap
    /\ progressMap[generateRequestId(c)].status = "error"
    /\ LogSum(committed[c], "debit") = JOB_COST

\* C11: every job that reached ERROR after a successful debit eventually
\* has its credit refunded, the refund being retried for as long as the
\* store refuses it.
RefundEventually ==
    \A c \in Calls :
        ErrorAfterDebit(c) ~> (LogSum(committed[c], "refund") = JOB_COST)

---------------------------------------------------------------------------
(* C12 *)

\* C12: a startJob for an account whose balance is below 1 ends in that
\* step with the insufficient-funds answer (or the storage error); the
\* balance is unchanged, no registry entry is made and nothing is launched.
InsufficientFundsRejected ==
    [][\A c \in Calls :
          (/\ pc[c] = "idle" /\ StepOf(c)
           /\ kind'[c] \in JobKinds
           /\ wallet'[c] \in Accounts
           /\ db[wallet'[c]].credits < JOB_COST
           /\ ~(kind'[c] = "sections" /\ job'[c].inputs # "valid")) =>
             /\ pc'[c] = "done"
             /\ resp'[c] \in {[code |-> 400, error |-> InsufficientCredits], [code |-> 500]}
             /\ db' = db
             /\ progressMap' = progressMap
             /\ committed' = committed]_vars

\* A startJob on a balance below 1 was turned away: balance as before, no
\* entry for it in the registry.
InsufficientFundsRejectedWitness ==
    \E c \in JobCalls :
        /\ Started = {c}
        /\ wallet[c] = TheAccount
        /\ credits0 < JOB_COST
        /\ resp[c] = [code |-> 400, error |-> InsufficientCredits]
        /\ pc[c] = "done"
        /\ Credits = credits0
        /\ generateRequestId(c) \notin DOMAIN progressMap

---------------------------------------------------------------------------
(* C13 *)

\* C13: a refreshSection for an account whose balance is below 0.25 ends
\* in that step with the insufficient-funds answer (or the storage error);
\* the balance is unchanged and the content request is never reached.
RefreshRejectedBelowPrice ==
    [][\A c \in Calls :
          (/\ pc[c] = "idle" /\ StepOf(c)
           /\ kind'[c] = "refresh"
           /\ wallet'[c] \in Accounts
           /\ db[wallet'[c]].credits < SECTION_COST) =>
             /\ pc'[c] = "done"
             /\ resp'[c] \in {[code |-> 400, error |-> InsufficientSectionCredits],
                               [code |-> 500]}
             /\ db' = db
             /\ committed' = committed]_vars

\* A refresh on the balance of 0.2 was turned away and the balance is 0.2.
RefreshRejectedBelowPriceWitness ==
    \E c \in Calls :
        /\ Started = {c}
        /\ kind[c] = "refresh"
        /\ wallet[c] = TheAccount
        /\ credits0 = LOW_CREDITS
        /\ resp[c] = [code |-> 400, error |-> InsufficientSectionCredits]
        /\ pc[c] = "done"
        /\ Credits = LOW_CREDITS

---------------------------------------------------------------------------
(* C14 *)

\* The request ids a client may ask about: the issued ones, none, one that
\* was never issued, and names of Object.prototype.
QueryIds ==
    {generateRequestId(c) : c \in Calls} \cup {"", "f00dfeedf00dfeed"}
      \cup ObjectPrototypeKeys

\* C14: getResult (and the export) returns the outputs exactly when the
\* job exists and is DONE; for an existing job in another state it answers
\* not-ready, and for an unknown request id it answers not-found.
ResultOnlyWhenDone ==
    \A r \in QueryIds :
        LET known == r \in DOMAIN progressMap
            isDone == known /\ progressMap[r].status = "done"
        IN  /\ (getResult(r).code = 200) <=> isDone
            /\ (getExport(r, "full").code = 200) <=> isDone
            /\ isDone => getResult(r).html = progressMap[r].code
            /\ (known /\ ~isDone) =>
                  /\ getResult(r) = [code |-> 400, error |-> NotFinished]
                  /\ getExport(r, "full") = [code |-> 400, error |-> ExportNotCompleted]
            /\ ~known =>
                  /\ getResult(r) = [code |-> 400, error |-> InvalidRequestId]
                  /\ getExport(r, "full") = [code |-> 400, error |-> InvalidRequestId]

---------------------------------------------------------------------------
(* C15 *)

\* C15: every record holds creditsAdded = amount x rate with rate 1 for KAS
\* and 1/800 for KASPER, the amount being the raw amount over 10^8; each
\* page a scan processes raises the balance of its document by the credits
\* of the records it pushes, and a scan alone on the account raises the
\* committed balance by the credits it recorded.
ConvertedAtRate ==
    [][\A c \in Calls :
          /\ \A i \in 1..Len(user'[c].pushedTx) :
                LET r == user'[c].pushedTx[i]
                IN  r.creditsAdded * CREDIT_CONVERSION(r.coinType)
                      = r.amount * (ONE \div GrainsPerCoin)
          /\ (pc[c] \in {"scan_kasper", "scan_kaspa"} /\ StepOf(c)) =>
                user'[c].credits - user[c].credits
                  = SumCredits(user'[c].pushedTx) - SumCredits(user[c].pushedTx)
          /\ (pc[c] = "scan_save" /\ StepOf(c) /\ Started = {c} /\ job'[c].saved) =>
                Credits' - Credits = SumCredits(user[c].pushedTx)]_vars

\* A deposit of 800 KASPER was recorded with exactly one credit, and the
\* balance is one credit higher.
ConvertedAtRateWitness ==
    /\ SoleScanSaved(1)
    /\ job[1].fetched = {"KASPER"}
    /\ Records = <<[txid |-> "tx1", coinType |-> "KASPER",
                    amount |-> 800 * GrainsPerCoin, creditsAdded |-> ONE]>>
    /\ Credits = credits0 + ONE

---------------------------------------------------------------------------
(* C16 *)

\* C16: a scan records and credits an event only if it is a transfer to
\* the scanned address (KASPER) or pays the scanned address (KAS); every
\* such event of a fetched page has a record once the page is processed;
\* events of other types or for other addresses leave no record and no
\* credit.
OnlyQualifyingCredited ==
    \A c \in Calls : kind[c] = "scan" =>
        /\ \A i \in 1..Len(user[c].pushedTx) :
              LET r == user[c].pushedTx[i]
              IN  r.txid \in (IF r.coinType = "KASPER"
                              THEN QualifyingKasper(wallet[c])
                              ELSE QualifyingKaspa(wallet[c]))
        /\ "KASPER" \in job[c].fetched =>
              QualifyingKasper(wallet[c]) \subseteq TxIds(user[c].processedTransactions)
        /\ "KAS" \in job[c].fetched =>
              QualifyingKaspa(wallet[c]) \subseteq TxIds(user[c].processedTransactions)
        /\ SoleScanSaved(c) =>
              /\ TxIds(Records) =
                    (IF "KASPER" \in job[c].fetched THEN QualifyingKasper(wallet[c]) ELSE {})
                      \cup (IF "KAS" \in job[c].fetched THEN QualifyingKaspa(wallet[c]) ELSE {})
              /\ Credits = credits0 + SumCredits(Records)

\* Pages with a mint, a transfer to another wallet, an empty transaction
\* and a payment to another wallet: only tx2 and tx6 are recorded.
OnlyQualifyingCreditedWitness ==
    /\ kasperFeed = <<KMint, KElsewhere, KTransfer2>>
    /\ SoleScanSaved(1)
    /\ job[1].fetched = {"KASPER", "KAS"}
    /\ TxIds(Records) = {"tx2", "tx6"}
    /\ Credits = credits0 + SECTION_COST + ONE

---------------------------------------------------------------------------
(* C17 *)

\* C17: whatever a feed request yields, the scan moves on to the next
\* stage without an answer being sent; a scan that got only one chain's
\* page and saved has a record in the store for every qualifying event of
\* that page.
FeedFailureContained ==
    [][\A c \in Calls :
          /\ (pc[c] = "scan_kasper" /\ StepOf(c)) =>
                pc'[c] = "scan_kaspa" /\ resp'[c] = NoResponse
          /\ (pc[c] = "scan_kaspa" /\ StepOf(c)) =>
                pc'[c] = "scan_save" /\ resp'[c] = NoResponse
          /\ (kind'[c] = "scan" /\ job'[c].saved) =>
                /\ "KASPER" \in job'[c].fetched =>
                      QualifyingKasper(wallet'[c]) \subseteq TxIds(Records')
                /\ "KAS" \in job'[c].fetched =>
                      QualifyingKaspa(wallet'[c]) \subseteq TxIds(Records')]_vars

\* The kasplex request failed, the kaspa page arrived: the call answered
\* 200 and the native deposit is stored and credited.
FeedFailureContainedWitness ==
    /\ kaspaFeed = <<NTx1>>
    /\ SoleScanSaved(1)
    /\ job[1].fetched = {"KAS"}
    /\ pc[1] = "done"
    /\ resp[1] = [code |-> 200, credits |-> credits0 + ONE]
    /\ TxIds(Records) = {"tx5"}
    /\ Credits = credits0 + ONE

---------------------------------------------------------------------------
(* C18 *)

\* C18: a failure of an image stage never puts the job in ERROR; the image
\* is replaced by the fixed fallback, and the step that ends the last image
\* stage makes the job DONE with progress 100 and the code of the primary
\* stage.
ImageFailureTolerated ==
    [][\A c \in Calls :
          (pc[c] \in {"gen_logo", "gen_hero"} /\ StepOf(c)) =>
             LET e == progressMap'[generateRequestId(c)]
             IN  /\ e.status # "error"
                 /\ job'[c].navLogo \in {"image", "fallback"}
                 /\ job'[c].footerImg \in {"image", "fallback"}
                 /\ pc[c] = "gen_hero" =>
                       /\ e.status = "done"
                       /\ e.progress = 100
                       /\ e.code = "html"
                       /\ \A k \in DOMAIN e.images : e.images[k] \in {"image", "fallback"}]_vars

\* Both image stages failed and the job is DONE at 100 with the fallbacks.
ImageFailureToleratedWitness ==
    \E c \in Calls :
        /\ kind[c] = "site"
        /\ generateRequestId(c) \in DOMAIN progressMap
        /\ progressMap[generateRequestId(c)].status = "done"
        /\ progressMap[generateRequestId(c)].progress = 100
        /\ progressMap[generateRequestId(c)].code = "html"
        /\ progressMap[generateRequestId(c)].images =
              [navLogo |-> "fallback", footerImg |-> "fallback", heroBg |-> "fallback"]

---------------------------------------------------------------------------
(* C19 *)

\* Scan c2 loaded the document after scan c1 had saved its deposits, and
\* got no page that c1 had not got.
ScannedAgain(c1, c2) ==
    /\ c1 # c2
    /\ kind[c1] = "scan" /\ kind[c2] = "scan"
    /\ wallet[c1] = wallet[c2]
    /\ job[c1].saved
    /\ committed[c1] # <<>>
    /\ \A i \in 1..Len(committed[c1]) : committed[c1][i].txid \in LoadedTxIds(c2)
    /\ job[c2].fetched \subseteq job[c1].fetched

\* C19: a scan run after another scan of the same account against the
\* same feed finds nothing to credit or record: it leaves the balance and
\* the processed-deposit set as the first scan left them.
SequentialIdempotence ==
    \A c1, c2 \in Calls : ScannedAgain(c1, c2) =>
        /\ user[c2].pushedTx = <<>>
        /\ ~user[c2].dirty
        /\ committed[c2] = <<>>
        /\ (Started = {c1, c2} /\ job[c2].saved) =>
              /\ Len(Records) = Len(committed[c1])
              /\ Credits = credits0 + LogSum(committed[c1], "deposit")

\* Two scans one after the other, both pages fetched both times: the
\* second saved and added nothing.
SequentialIdempotenceWitness ==
    /\ MaxCalls >= 2
    /\ ScannedAgain(1, 2)
    /\ job[1].fetched = {"KASPER", "KAS"}
    /\ job[2].fetched = {"KASPER", "KAS"}
    /\ job[2].saved
    /\ pc[2] = "done"
    /\ Started = {1, 2}
    /\ Len(Records) = 2
    /\ Credits = credits0 + 2 * ONE

---------------------------------------------------------------------------
(* C20 *)

\* C20: a KAS deposit and a KASPER deposit that share a transaction id are
\* each recorded once and each credited once by a scan that got both
\* pages.
PerCoinTypeKey ==
    \A c \in Calls :
        (SoleScanSaved(c) /\ job[c].fetched = {"KASPER", "KAS"}) =>
            \A t \in QualifyingKasper(wallet[c]) \cap QualifyingKaspa(wallet[c]) :
                /\ CountTxCoin(Records, t, "KASPER") = 1
                /\ CountTxCoin(Records, t, "KAS") = 1
                /\ Credits = credits0 + CreditsFor(800 * GrainsPerCoin, "KASPER")
                                       + CreditsFor(GrainsPerCoin, "KAS")

---------------------------------------------------------------------------
(* C21 *)

\* C21: the answer of a successful scan carries the balance the store
\* holds when the route reads the account again, and when the scan was the
\* only operation on the account that is the balance before the call plus
\* the credited amounts the call applied.
ReturnsUpdatedBalance ==
    [][\A c \in Calls :
          (pc[c] = "scan_reread" /\ StepOf(c) /\ resp'[c].code = 200) =>
              /\ resp'[c].credits = Credits
              /\ (Started = {c}) =>
                    resp'[c].credits = credits0 + LogSum(committed[c], "deposit")]_vars

\* A sole scan applied two deposits of one credit each and answered with
\* the balance two credits above the one it found.
ReturnsUpdatedBalanceWitness ==
    /\ Started = {1}
    /\ kind[1] = "scan"
    /\ pc[1] = "done"
    /\ resp[1].code = 200
    /\ Len(committed[1]) = 2
    /\ resp[1].credits = credits0 + 2 * ONE

---------------------------------------------------------------------------
(* C22 *)

---------------------------------------------------------------------------
(* C23 *)

\* C23: the step in which the primary content stage of a job fails, the
\* rate-limit refusal included, leaves the job's entry at error with
\* progress 100 and commits one refund of 1 credit to the job's account.
RateLimitIsHardFailure ==
    [][\A c \in Calls :
          (pc[c] = "gen_gpt" /\ pc'[c] = "done") =>
              /\ progressMap'[generateRequestId(c)].status = "error"
              /\ progressMap'[generateRequestId(c)].progress = 100
              /\ committed'[c] = Append(committed[c], Refund(JOB_COST))
              /\ db'[wallet[c]].credits = db[wallet[c]].credits + JOB_COST]_vars

---------------------------------------------------------------------------
(* C24 *)

\* The number of stored artifacts that carry request id r.
RECURSIVE CountFiles(_, _)
CountFiles(files, r) ==
    IF files = <<>> THEN 0
    ELSE (IF Head(files).requestId = r THEN 1 ELSE 0) + CountFiles(Tail(files), r)

\* C24: a job whose background function has ended with its entry at DONE
\* has progress 100 and exactly one stored artifact carrying its request
\* id; a job that has ended with its entry at ERROR has none.
ArtifactOnSuccess ==
    \A c \in Calls :
        (pc[c] = "done" /\ kind[c] \in JobKinds
            /\ generateRequestId(c) \in DOMAIN progressMap) =>
            LET e == progressMap[generateRequestId(c)]
                n == CountFiles(db[wallet[c]].generatedFiles, generateRequestId(c))
            IN  /\ (e.status = "done") => (e.progress = 100 /\ n = 1)
                /\ (e.status = "error") => n = 0

---------------------------------------------------------------------------
(* C25 *)

\* The save of scan c was refused: it had deposits to write and wrote none.
SaveRefused(c) ==
    /\ kind[c] = "scan"
    /\ pc[c] = "done"
    /\ ~job[c].saved
    /\ user[c].pushedTx # <<>>

\* C25: the step in which the save of a scan is refused answers with a
\* failure and leaves the stored balance and the stored records as they
\* were; and when another scan of the account, the only other operation,
\* then saves with the same pages, each deposit the refused scan had found
\* is recorded once and the balance holds each credited amount once.
RefusedSaveChangesNothing ==
    [][\A c \in Calls :
          /\ (pc[c] = "scan_save" /\ pc'[c] = "done") =>
                /\ resp'[c].code = 500
                /\ db' = db
                /\ committed' = committed
          /\ (pc[c] = "scan_save" /\ job'[c].saved) =>
                \A c1 \in Calls \ {c} :
                    (SaveRefused(c1) /\ Started = {c1, c}
                        /\ job[c1].fetched = job[c].fetched) =>
                        /\ \A t \in TxIds(user[c1].pushedTx) : CountTx(Records', t) = 1
                        /\ Len(Records') = Len(user[c1].pushedTx)
                        /\ Credits' = credits0 + SumCredits(user[c1].pushedTx)]_vars

\* The first scan found two deposits and its save was refused; the second
\* scan saved them: two records, two credits.
RefusedSaveChangesNothingWitness ==
    /\ MaxCalls >= 2
    /\ SaveRefused(1)
    /\ resp[1].code = 500
    /\ Len(user[1].pushedTx) = 2
    /\ kind[2] = "scan"
    /\ job[2].saved
    /\ Started = {1, 2}
    /\ Len(Records) = 2
    /\ Credits = credits0 + 2 * ONE

---------------------------------------------------------------------------
(* C26 *)

\* The ids of the events of chain coin that qualify for crediting to addr.
QualifyingOf(coin, addr) ==
    IF coin = "KASPER" THEN QualifyingKasper(addr) ELSE QualifyingKaspa(addr)

\* Scan c1 saved without the page of chain coin, and scan c, which got that
\* page, loaded the account after c1 had saved; no one else used the account.
MissedThenFetched(c1, c, coin) ==
    /\ c1 # c
    /\ Started = {c1, c}
    /\ kind[c1] = "scan" /\ kind[c] = "scan"
    /\ pc[c1] = "done" /\ job[c1].saved
    /\ coin \notin job[c1].fetched
    /\ coin \in job[c].fetched
    /\ \A i \in 1..Len(committed[c1]) : committed[c1][i].txid \in LoadedTxIds(c)

\* C26: a feed request that fails adds no deposit to the call's document,
\* and a scan that saved without a chain's page committed no deposit of
\* that chain; when the next scan gets the page, its save leaves every
\* qualifying event of that chain recorded once and credited by that scan
\* alone, no id recorded twice, and the balance grown by what the two
\* scans committed.
MissedDepositCreditedLater ==
    [][\A c \in Calls :
          /\ (pc[c] = "scan_kasper" /\ StepOf(c) /\ "KASPER" \notin job'[c].fetched) =>
                user'[c] = user[c]
          /\ (pc[c] = "scan_kaspa" /\ StepOf(c) /\ "KAS" \notin job'[c].fetched) =>
                user'[c] = user[c]
          /\ (pc[c] = "scan_save" /\ job'[c].saved) =>
                /\ \A coin \in {"KASPER", "KAS"} \ job[c].fetched :
                      \A t \in QualifyingOf(coin, wallet[c]) : c \notin Appliers(t)'
                /\ \A c1 \in Calls, coin \in {"KASPER", "KAS"} :
                      MissedThenFetched(c1, c, coin) =>
                          /\ \A t \in QualifyingOf(coin, wallet[c]) :
                                /\ CountTx(Records', t) = 1
                                /\ Appliers(t)' = {c}
                          /\ \A t \in FeedTxIds : CountTx(Records', t) <= 1
                          /\ Credits' = credits0 + LogSum(committed[c1], "deposit")
                                                + LogSum(committed'[c], "deposit")]_vars

\* The first scan got only the kaspa page and credited tx5; the second got
\* both pages and credited the token transfer tx1 the first had missed.
MissedDepositCreditedLaterWitness ==
    /\ MaxCalls >= 2
    /\ kasperFeed = <<KTransfer1>>
    /\ kind[1] = "scan" /\ kind[2] = "scan"
    /\ job[1].saved /\ job[1].fetched = {"KAS"}
    /\ job[2].saved /\ job[2].fetched = {"KASPER", "KAS"}
    /\ TxIds(committed[1]) = {"tx5"}
    /\ TxIds(committed[2]) = {"tx1"}
    /\ CountTx(Records, "tx1") = 1
    /\ Appliers("tx1") = {2}
    /\ Credits = credits0 + 2 * ONE

---------------------------------------------------------------------------
(* C27 *)

\* Sequence p is an initial segment of sequence q.
IsPrefix(p, q) ==
    /\ Len(p) <= Len(q)
    /\ \A i \in 1..Len(p) : q[i] = p[i]

\* C27: no step of any handler removes or alters a stored processed-deposit
\* record: the stored array after a step begins with the array before it.
RecordsOnlyGrow ==
    [][\A a \in Accounts :
          IsPrefix(db[a].processedTransactions, db'[a].processedTransactions)]_vars

\* A job that had loaded the account before a scan stored two records has
\* saved its artifact, and the two records are still there.
RecordsOnlyGrowWitness ==
    /\ MaxCalls >= 2
    /\ kind[1] = "site" /\ pc[1] = "done"
    /\ user[1].processedTransactions = <<>>
    /\ Len(db[TheAccount].generatedFiles) = 1
    /\ kind[2] = "scan" /\ job[2].saved
    /\ Len(Records) = 2

---------------------------------------------------------------------------
(* C28 *)

\* C28: a step of a /progress, /result or /export handler leaves the
\* registry as it was, and a step of a job leaves every entry but its own
\* as it was and adds no entry but its own.
SingleWriterPerEntry ==
    [][\A c \in Calls : StepOf(c) =>
          /\ (kind'[c] = "poll") => progressMap' = progressMap
          /\ (kind'[c] \in JobKinds) =>
                /\ DOMAIN progressMap' \subseteq DOMAIN progressMap \cup {generateRequestId(c)}
                /\ \A r \in DOMAIN progressMap \ {generateRequestId(c)} :
                      /\ r \in DOMAIN progressMap'
                      /\ progressMap'[r] = progressMap[r]]_vars

\* The result of a finished job was fetched: the answer carries the code
\* and the entry is still in the registry, done and complete.
SingleWriterPerEntryWitness ==
    /\ MaxCalls >= 2
    /\ kind[1] = "site" /\ pc[1] = "done"
    /\ kind[2] = "poll" /\ pc[2] = "done"
    /\ job[2].inputs = generateRequestId(1)
    /\ resp[2] = getResult(generateRequestId(1))
    /\ resp[2].code = 200
    /\ progressMap[generateRequestId(1)].status = "done"
    /\ progressMap[generateRequestId(1)].code = "html"

---------------------------------------------------------------------------
(* C29 *)

\* C29: no step of a section refresh, whether it answers with the snippet,
\* is rejected or fails, adds an entry to the registry or changes one.
RefreshLeavesRegistry ==
    [][\A c \in Calls :
          (kind'[c] = "refresh" /\ StepOf(c)) => progressMap' = progressMap]_vars

\* A refresh was paid and answered while a job was running: the registry
\* holds the job's entry alone, as the job left it.
RefreshLeavesRegistryWitness ==
    /\ MaxCalls >= 2
    /\ kind[1] = "site" /\ pc[1] = "gen_gpt"
    /\ kind[2] = "refresh" /\ pc[2] = "done"
    /\ resp[2].code = 200
    /\ LogSum(committed[2], "debit") = SECTION_COST
    /\ DOMAIN progressMap = {generateRequestId(1)}
    /\ progressMap[generateRequestId(1)] = [NewEntry EXCEPT !.progress = 20]

---------------------------------------------------------------------------
(* C30 *)

\* Handler c belongs to a process that has exited.
BeforeRestart(c) == pc[c] \in {"lost", "over"}

\* C30: once the process has restarted, the id of every job started before
\* has no entry: /progress and /result answer as for an id that was never
\* issued, and so did every poll made since; a job that was running at the
\* restart has its debit committed and no refund, and with only jobs and
\* polls on the account the balance is the initial one less the debits.
RestartForgetsJobs ==
    /\ \A c \in Calls :
          (BeforeRestart(c) /\ kind[c] \in JobKinds /\ resp[c].code = 200) =>
              LET id == resp[c].requestId IN
              /\ getProgress(id) = [code |-> 400, error |-> InvalidRequestId]
              /\ getResult(id) = [code |-> 400, error |-> InvalidRequestId]
              /\ \A p \in Calls :
                    (kind[p] = "poll" /\ pc[p] = "done" /\ job[p].inputs = id) =>
                        resp[p] = [code |-> 400, error |-> InvalidRequestId]
              /\ (pc[c] = "lost") =>
                    /\ LogSum(committed[c], "debit") = JOB_COST
                    /\ LogSum(committed[c], "refund") = 0
    /\ ((\E c \in Calls : BeforeRestart(c))
          /\ \A c \in Started : kind[c] \in JobKinds \cup {"poll"}) =>
              Credits = credits0 - Debited

\* A job was waiting for its content when the process restarted; its id was
\* then polled and not found, and the credit is still debited.
RestartForgetsJobsWitness ==
    /\ MaxCalls >= 2
    /\ kind[1] = "site" /\ pc[1] = "lost"
    /\ resp[1] = [code |-> 200, requestId |-> generateRequestId(1)]
    /\ kind[2] = "poll" /\ pc[2] = "done"
    /\ job[2].inputs = generateRequestId(1)
    /\ resp[2] = [code |-> 400, error |-> InvalidRequestId]
    /\ Credits = credits0 - JOB_COST

---------------------------------------------------------------------------
(* C31 *)

\* C31: the progress of every entry is a whole number from 0 to 100, and it
\* is 100 exactly when the entry is done or in error; the same holds of
\* what /progress answers for the entry and of every answer a poll of
\* /progress has received.
ProgressFullIffTerminal ==
    /\ \A r \in DOMAIN progressMap :
          /\ progressMap[r].progress \in 0..100
          /\ (progressMap[r].progress = 100) <=> (progressMap[r].status \in {"done", "error"})
          /\ getProgress(r).progress = progressMap[r].progress
          /\ getProgress(r).status = progressMap[r].status
    /\ \A p \in Calls :
          (kind[p] = "poll" /\ pc[p] = "done" /\ "body" \in DOMAIN resp[p]) =>
              /\ resp[p].body.progress \in 0..100
              /\ (resp[p].body.progress = 100) <=> (resp[p].body.status \in {"done", "error"})

\* One job failed after its first section and stands at 100; the other has
\* six of its seven sections and stands at 85, still in progress.
ProgressFullIffTerminalWitness ==
    /\ MaxCalls >= 2
    /\ kind[1] = "sections" /\ kind[2] = "sections"
    /\ DOMAIN progressMap = {generateRequestId(1), generateRequestId(2)}
    /\ progressMap[generateRequestId(1)].status = "error"
    /\ progressMap[generateRequestId(1)].progress = 100
    /\ progressMap[generateRequestId(1)].sections[1] # NULL
    /\ progressMap[generateRequestId(2)].status = "in-progress"
    /\ progressMap[generateRequestId(2)].progress = 85

---------------------------------------------------------------------------
(* C32 *)

\* C32: a scan, a startJob or a section refresh for an address that has no
\* account ends in its first step with a failure answer: no document and
\* no registry entry is changed, nothing is committed, no feed request is
\* made and nothing is launched.
UnknownAddressFails ==
    [][\A c \in Calls :
          (/\ pc[c] = "idle" /\ StepOf(c)
           /\ kind'[c] \in JobKinds \cup {"scan", "refresh"}
           /\ wallet'[c] \notin Accounts) =>
             /\ pc'[c] = "done"
             /\ resp'[c].code \in {400, 500}
             /\ db' = db
             /\ progressMap' = progressMap
             /\ committed' = committed
             /\ job'[c].fetched = {}
             /\ user'[c] = NoUser]_vars

\* A scan and a startJob were made for an address without account: both
\* were answered with a failure and the store and the registry are as at
\* the start.
UnknownAddressFailsWitness ==
    /\ MaxCalls >= 2
    /\ kind[1] = "scan" /\ kind[2] \in JobKinds
    /\ wallet[1] \notin Accounts /\ wallet[2] \notin Accounts
    /\ pc[1] = "done" /\ pc[2] = "done"
    /\ resp[1] = [code |-> 500]
    /\ resp[2] = [code |-> 400, error |-> InsufficientCredits]
    /\ Credits = credits0
    /\ Records = <<>>
    /\ DOMAIN progressMap = {}

---------------------------------------------------------------------------
(* C33 *)

\* The entry of job c is in the registry and in progress.
Running(c) ==
    /\ generateRequestId(c) \in DOMAIN progressMap
    /\ progressMap[generateRequestId(c)].status = "in-progress"

\* The background function of job c has ended with its entry done or in
\* error.
Ended(c) ==
    /\ pc[c] = "done"
    /\ generateRequestId(c) \in DOMAIN progressMap
    /\ progressMap[generateRequestId(c)].status \in {"done", "error"}

\* C33: when every awaited call returns or fails, a job whose entry is in
\* progress leads to its background function having ended with the entry
\* done or in error.
JobTerminates ==
    \A c \in Calls : Running(c) ~> Ended(c)

\* A job went through its seven sections and ended done; another went
\* through its three stages and its save, and ended done too.
JobTerminatesWitness ==
    /\ MaxCalls >= 2
    /\ kind[1] = "sections" /\ job[1].i = NUM_SECTIONS /\ Ended(1)
    /\ kind[2] = "site" /\ Ended(2)
    /\ progressMap[generateRequestId(1)].status = "done"
    /\ progressMap[generateRequestId(2)].status = "done"
    /\ Len(db[TheAccount].generatedFiles) = 1

---------------------------------------------------------------------------
(* C34 *)

\* C34: the step in which a refresh that passed the balance check saves
\* lowers the stored balance by exactly 0.25, and the step in which its
\* content request returns, with the snippet or with a failure, finds that
\* debit committed and changes neither the balance nor the ledger.
RefreshDebitKept ==
    [][\A c \in Calls :
          (kind'[c] = "refresh" /\ StepOf(c)) =>
              /\ (pc[c] = "ref_save" /\ pc'[c] = "ref_gpt") =>
                    db'[wallet[c]].credits = db[wallet[c]].credits - SECTION_COST
              /\ (pc[c] = "ref_gpt") =>
                    /\ LogSum(committed[c], "debit") = SECTION_COST
                    /\ db' = db
                    /\ committed' = committed]_vars

---------------------------------------------------------------------------
(* C35 *)

\* C35: once a scan that got a chain's page has saved, every qualifying
\* event of that page has a record in the store, whatever other events the
\* page holds ahead of it.
QualifyingAllRecorded ==
    \A c \in Calls :
        (kind[c] = "scan" /\ job[c].saved) =>
            /\ ("KASPER" \in job[c].fetched) =>
                  \A t \in QualifyingKasper(wallet[c]) : CountTx(Records, t) >= 1
            /\ ("KAS" \in job[c].fetched) =>
                  \A t \in QualifyingKaspa(wallet[c]) : CountTx(Records, t) >= 1

---------------------------------------------------------------------------
(* C36 *)

\* C36: a step of a handler leaves the balance, the records and the
\* generated files of every account but the one its request names as they
\* were.
OtherAccountsUntouched ==
    [][\A c \in Calls : StepOf(c) =>
          \A a \in Accounts \ {wallet'[c]} : db'[a] = db[a]]_vars

\* A scan of the first account stored its two deposits and a job of the
\* second account was paid and stored its artifact: each account shows its
\* own operation only.
OtherAccountsUntouchedWitness ==
    /\ MaxCalls >= 2
    /\ kind[1] = "scan" /\ wallet[1] = "w1" /\ job[1].saved
    /\ kind[2] = "site" /\ wallet[2] = "w2" /\ pc[2] = "done"
    /\ db["w1"].credits = credits0 + 2 * ONE
    /\ Len(db["w1"].processedTransactions) = 2
    /\ db["w1"].generatedFiles = <<>>
    /\ db["w2"].credits = credits0 - JOB_COST
    /\ db["w2"].processedTransactions = <<>>
    /\ Len(db["w2"].generatedFiles) = 1

---------------------------------------------------------------------------
(* C37 *)

\* C37: a startJob whose input parameters are missing or invalid has been
\* charged nothing when it is over, and when it was the only operation on
\* the account the balance is the one before the request.
InvalidInputsNotCharged ==
    \A c \in Calls :
        (kind[c] \in JobKinds /\ pc[c] = "done" /\ job[c].inputs # "valid") =>
            /\ LogSum(committed[c], "debit") = LogSum(committed[c], "refund")
            /\ (Started = {c} /\ wallet[c] \in Accounts) =>
                  db[wallet[c]].credits = credits0

---------------------------------------------------------------------------
(* C38 *)

\* What the outputs of positions n and below of transaction tx pay to addr.
RECURSIVE PaidUpTo(_, _, _)
PaidUpTo(tx, addr, n) ==
    IF n = 0 THEN 0
    ELSE PaidUpTo(tx, addr, n - 1)
           + (IF tx.outputs[n].script_public_key_address = addr
              THEN tx.outputs[n].amount ELSE 0)

\* C38: every stored record of a native deposit carries, as its amount, the
\* sum of all outputs of its transaction that pay the account, a sum that
\* is not zero; and once a scan that was alone on the account has saved
\* with the native page, each transaction of the page that pays the account
\* has exactly one record and each that does not has none.
NativeOutputsSummed ==
    \A j \in 1..Len(kaspaFeed) :
        LET tx == kaspaFeed[j]
            paid == PaidUpTo(tx, TheAccount, Len(tx.outputs))
        IN  /\ \A i \in 1..Len(Records) :
                  (Records[i].txid = tx.hash /\ Records[i].coinType = "KAS") =>
                      /\ paid > 0
                      /\ Records[i].amount = paid
            /\ \A c \in Calls :
                  (SoleScanSaved(c) /\ "KAS" \in job[c].fetched) =>
                      CountTxCoin(Records, tx.hash, "KAS") = (IF paid > 0 THEN 1 ELSE 0)

\* The page held a transaction without outputs, one that pays another
\* address and one with two outputs of half a coin to the account around an
\* output to someone else: one record, of one coin.
NativeOutputsSummedWitness ==
    /\ kaspaFeed = <<NTxEmpty, NTxAway, NTxSplit>>
    /\ SoleScanSaved(1)
    /\ "KAS" \in job[1].fetched
    /\ CountTxCoin(Records, "tx6", "KAS") = 1
    /\ CountTxCoin(Records, "tx7", "KAS") = 0
    /\ CountTxCoin(Records, "tx8", "KAS") = 0
    /\ \E i \in 1..Len(Records) :
          Records[i].txid = "tx6" /\ Records[i].amount = GrainsPerCoin

====
